---- MODULE Spec2Model ----
(***************************************************************************)
(* Model of can/interfaces/morphle_eth2can/morphle_eth2can.py:             *)
(* connect_to_server and MorphleCanBus (__init__, _recv_internal, send,    *)
(* _tcp_send, shutdown).                                                   *)
(*                                                                         *)
(* The TCP peer is the environment: `wire` is the byte stream it sends,    *)
(* `rpos` how much of it socket.recv has handed over so far, `acceptAt`    *)
(* the time (ms after connect_to_server is entered) from which it accepts  *)
(* connections.  Arbitration ids are kept below 2^31, the largest integer  *)
(* the model checker represents.                                           *)
(***************************************************************************)
EXTENDS Integers, Sequences, FiniteSets, TLC

VARIABLES
    pc,              \* where the constructor is: "new", "connecting", "constructed", "raised"
    sock,            \* self.__socket: "none", "unconnected", "connected", "closed"
    now,             \* connect_to_server: last sample of time.time() * 1000
    end_time,        \* connect_to_server: now + timeout_ms
    acceptAt,        \* environment: the endpoint accepts connects from this time on
    wire,            \* environment: the bytes the peer sends on the connection
    rpos,            \* environment: number of bytes of wire already returned by recv
    eof,             \* environment: the peer has closed (a zero-byte read was seen)
    receive_buffer,  \* self.__receive_buffer
    message_buffer,  \* self.__message_buffer (deque), with each entry's stream offset
    delivered,       \* history: entries returned by _recv_internal, in order
    split,           \* history: how recv has cut the stream so far: "none" (nothing
                     \* read), "whole" (all of wire in one read), "bytewise" (one
                     \* byte per read), "other"
    rejected,        \* history: number of windows logged as invalid
    result           \* outcome of the last call of send/_recv_internal/shutdown

vars == <<pc, sock, now, end_time, acceptAt, wire, rpos, eof, receive_buffer,
          message_buffer, delivered, split, rejected, result>>

-----------------------------------------------------------------------------
(* Program constants *)

ethcan_message_fixed_len == 13
ethcan_message_head == 8
timeout_ms == 10000
RecvMax == 1024

(* Bounds of the model *)

MaxPieces == 3

-----------------------------------------------------------------------------
(* Environment: the byte streams and the messages the caller sends *)

\* head 0x08, id 0x123, data 01 02 00.. : what a padded send of (0x123, [1,2]) looks like
FrameA == <<8, 0, 0, 1, 35, 1, 2, 0, 0, 0, 0, 0, 0>>
\* head 0x00, id 0x7FFFFFFF, data 09 FF.. (a window that starts at its first
\* data byte has head 0x09, the smallest invalid one)
FrameB == <<0, 127, 255, 255, 255, 9, 255, 255, 255, 255, 255, 255, 255>>
\* head 0xFF: an invalid window whose tail looks like the start of a frame
FrameX == <<255, 8, 0, 0, 1, 35, 1, 2, 0, 0, 0, 0, 0>>
\* the first 8 bytes of FrameA
Frag8 == <<8, 0, 0, 1, 35, 1, 2, 0>>

Pieces == {FrameA, FrameB, FrameX, Frag8}

RECURSIVE Concat(_)
Concat(ss) == IF ss = <<>> THEN <<>> ELSE Head(ss) \o Concat(Tail(ss))

Wires == {Concat(ps) : ps \in UNION {[1..k -> Pieces] : k \in 0..MaxPieces}}

\* messages handed to send: arbitration_id and data (dlc = Len(data))
SendMsgs ==
    { [arbitration_id |-> 291, data |-> <<1, 2>>],
      [arbitration_id |-> 0, data |-> <<>>],
      [arbitration_id |-> 2147483647, data |-> <<1, 2, 3, 4, 5, 6, 7, 8>>] }

\* when the endpoint starts accepting, and how long a failed connect takes (ms)
AcceptAtMs == {0, 4000, 9000, 10000, 20000}
AttemptMs == {1000, 3000, 6000}

\* an endpoint that accepts at once sends any of the streams; the endpoints
\* that refuse at first send a short one
Environments ==
    {[acceptAt |-> 0, wire |-> w] : w \in Wires}
        \cup {[acceptAt |-> a, wire |-> w] : a \in AcceptAtMs, w \in {<<>>, FrameA}}

Min(a, b) == IF a < b THEN a ELSE b

-----------------------------------------------------------------------------
(* Wire codec: struct.pack / struct.unpack with ">BI" *)

\* struct.unpack(">BI", bytes(can_frame[:5]))[1]
unpack_id(can_frame) ==
    ((can_frame[2] * 256 + can_frame[3]) * 256 + can_frame[4]) * 256 + can_frame[5]

\* struct.pack(">BI", head, arbitration_id)
pack_header(head, arbitration_id) ==
    << head,
       (arbitration_id \div 16777216) % 256,
       (arbitration_id \div 65536) % 256,
       (arbitration_id \div 256) % 256,
       arbitration_id % 256 >>

\* can.Message(arbitration_id=..., data=can_frame[5:], is_extended_id=False, timestamp=0.0)
Message(can_frame) ==
    [ arbitration_id |-> unpack_id(can_frame),
      data |-> SubSeq(can_frame, 6, Len(can_frame)),
      is_extended_id |-> FALSE,
      timestamp |-> 0 ]

\* header_payload + msg.data
homing_payload(msg) ==
    pack_header(ethcan_message_head, msg.arbitration_id) \o msg.data


-----------------------------------------------------------------------------
(* Frame reassembly: the loop of _recv_internal *)

\* self.__receive_buffer[i * 13] <= self.__ethcan_message_head
head_ok_lt(b) == b < ethcan_message_head
head_ok_signed(b) == (IF b >= 128 THEN b - 256 ELSE b) <= ethcan_message_head
head_ok(b) == b <= ethcan_message_head

\* int(len(self.__receive_buffer) / self.__ethcan_message_fixed_len)
frame_count(buf) == Len(buf) \div ethcan_message_fixed_len

\* self.__receive_buffer[i * 13 : (i + 1) * 13]
window_short(buf, i) ==
    SubSeq(buf, i * ethcan_message_fixed_len + 1, (i + 1) * ethcan_message_fixed_len - 1)
window(buf, i) ==
    SubSeq(buf, i * ethcan_message_fixed_len + 1, (i + 1) * ethcan_message_fixed_len)

\* self.__message_buffer.append(...); off is the window's offset in the stream
enqueue_twice(q, e) == Append(Append(q, e), e)
enqueue_left(q, e) == <<e>> \o q
enqueue(q, e) == Append(q, e)

\* self.__message_buffer.popleft()
pop_right(q) == [item |-> q[Len(q)], rest |-> SubSeq(q, 1, Len(q) - 1)]
popleft(q) == [item |-> Head(q), rest |-> Tail(q)]

\* for i in range(n): append a Message for every window whose head byte passes
RECURSIVE decode_loop(_, _, _, _, _)
decode_loop(q, buf, i, n, base) ==
    IF i >= n THEN q
    ELSE LET can_frame == window(buf, i)
             q1 == IF head_ok(buf[i * ethcan_message_fixed_len + 1])
                   THEN enqueue(q, [msg |-> Message(can_frame),
                                    off |-> base + i * ethcan_message_fixed_len])
                   ELSE q
         IN decode_loop(q1, buf, i + 1, n, base)

\* the else branch: number of windows logged as invalid
invalid_count(buf, n) ==
    Cardinality({i \in 0..(n - 1) : ~head_ok(buf[i * ethcan_message_fixed_len + 1])})

\* self.__receive_buffer[int(len / 13) * 13:]
remainder_off_by_one(buf) ==
    IF frame_count(buf) = 0 THEN buf
    ELSE SubSeq(buf, frame_count(buf) * ethcan_message_fixed_len, Len(buf))
remainder_clear(buf) == <<>>
remainder_keep_first(buf) == SubSeq(buf, 1, Len(buf) % ethcan_message_fixed_len)
remainder(buf) ==
    SubSeq(buf, frame_count(buf) * ethcan_message_fixed_len + 1, Len(buf))

-----------------------------------------------------------------------------
(* Outcomes of the calls *)

\* again: (shutdown) the socket was already closed when the call was made
NoCall ==
    [op |-> "none", kind |-> "ok", msg |-> <<>>, filtered |-> FALSE, err |-> "",
     selected |-> FALSE, read |-> FALSE, sent |-> <<>>, bytes |-> <<>>,
     again |-> FALSE]

\* return can_message, False
RecvReturn(m, selected, read) ==
    [NoCall EXCEPT !.op = "recv", !.kind = IF m = <<>> THEN "none" ELSE "msg",
                   !.msg = m, !.selected = selected, !.read = read]

RecvRaise(err, selected, read) ==
    [NoCall EXCEPT !.op = "recv", !.kind = "error", !.err = err,
                   !.selected = selected, !.read = read]

SendReturn(m, bytes) ==
    [NoCall EXCEPT !.op = "send", !.sent = <<m>>, !.bytes = bytes]

SendRaise(err) ==
    [NoCall EXCEPT !.op = "send", !.kind = "error", !.err = err]

-----------------------------------------------------------------------------
Init ==
    /\ pc = "new"
    /\ sock = "none"
    /\ now = 0
    /\ end_time = 0
    /\ \E e \in Environments : acceptAt = e.acceptAt /\ wire = e.wire
    /\ rpos = 0
    /\ eof = FALSE
    /\ receive_buffer = <<>>
    /\ message_buffer = <<>>
    /\ delivered = <<>>
    /\ split = "none"
    /\ rejected = 0
    /\ result = NoCall

\* __init__ up to the call of connect_to_server, and its first three lines
Construct ==
    /\ pc = "new"
    /\ pc' = "connecting"
    /\ sock' = "unconnected"
    /\ receive_buffer' = <<>>
    /\ message_buffer' = <<>>
    /\ now' = 0
    /\ end_time' = 0 + timeout_ms
    /\ UNCHANGED <<acceptAt, wire, rpos, eof, delivered, split, rejected, result>>

\* while now < end_time
loop_cond_le(n, e) == n <= e
loop_cond(n, e) == n < e

\* one pass of the while loop: s.connect succeeds and returns, or raises and
\* time is sampled again
connect_to_server ==
    /\ pc = "connecting"
    /\ loop_cond(now, end_time)
    /\ \/ /\ now >= acceptAt
          /\ sock' = "connected"
          /\ pc' = "constructed"
          /\ UNCHANGED now
       \/ /\ now < acceptAt
          /\ \E d \in AttemptMs : now' = now + d
          /\ UNCHANGED <<sock, pc>>
    /\ UNCHANGED <<end_time, acceptAt, wire, rpos, eof, receive_buffer, message_buffer,
                   delivered, split, rejected, result>>

\* the loop condition fails: raise TimeoutError out of __init__
connect_timeout ==
    /\ pc = "connecting"
    /\ ~loop_cond(now, end_time)
    /\ pc' = "raised"
    /\ UNCHANGED <<sock, now, end_time, acceptAt, wire, rpos, eof, receive_buffer,
                   message_buffer, delivered, split, rejected, result>>

\* _recv_internal, lines 80-82: a queued message is returned at once
recv_queued_stalls ==
    /\ pc = "constructed"
    /\ Len(message_buffer) # 0
    /\ result' = RecvReturn(<<>>, FALSE, FALSE)
    /\ UNCHANGED <<pc, sock, now, end_time, acceptAt, wire, rpos, eof, receive_buffer,
                   message_buffer, delivered, split, rejected>>
recv_queued ==
    /\ pc = "constructed"
    /\ Len(message_buffer) # 0
    /\ LET p == popleft(message_buffer)
       IN /\ message_buffer' = p.rest
          /\ delivered' = Append(delivered, p.item)
          /\ result' = RecvReturn(<<p.item.msg>>, FALSE, FALSE)
    /\ UNCHANGED <<pc, sock, now, end_time, acceptAt, wire, rpos, eof, receive_buffer,
                   split, rejected>>

\* select.select raises: ValueError on a closed socket (fileno() is -1; not
\* caught by "except OSError"), OSError otherwise (re-raised as can.CanError)
recv_select_raises ==
    /\ pc = "constructed"
    /\ Len(message_buffer) = 0
    /\ result' = RecvRaise(IF sock = "closed" THEN "ValueError" ELSE "CanError", TRUE, FALSE)
    /\ UNCHANGED <<pc, sock, now, end_time, acceptAt, wire, rpos, eof, receive_buffer,
                   message_buffer, delivered, split, rejected>>

\* select.select returns no ready socket: return None, False
recv_not_ready_drops ==
    /\ pc = "constructed"
    /\ Len(message_buffer) = 0
    /\ sock = "connected"
    /\ ~eof
    /\ receive_buffer' = <<>>
    /\ result' = RecvReturn(<<>>, TRUE, FALSE)
    /\ UNCHANGED <<pc, sock, now, end_time, acceptAt, wire, rpos, eof,
                   message_buffer, delivered, split, rejected>>
recv_not_ready ==
    /\ pc = "constructed"
    /\ Len(message_buffer) = 0
    /\ sock = "connected"
    /\ ~eof
    /\ result' = RecvReturn(<<>>, TRUE, FALSE)
    /\ UNCHANGED <<pc, sock, now, end_time, acceptAt, wire, rpos, eof, receive_buffer,
                   message_buffer, delivered, split, rejected>>

\* the socket is ready but socket.recv raises: re-raised as can.CanError
recv_read_raises_drops ==
    /\ pc = "constructed"
    /\ Len(message_buffer) = 0
    /\ sock = "connected"
    /\ receive_buffer' = <<>>
    /\ result' = RecvRaise("CanError", TRUE, FALSE)
    /\ UNCHANGED <<pc, sock, now, end_time, acceptAt, wire, rpos, eof,
                   message_buffer, delivered, split, rejected>>
recv_read_raises ==
    /\ pc = "constructed"
    /\ Len(message_buffer) = 0
    /\ sock = "connected"
    /\ result' = RecvRaise("CanError", TRUE, FALSE)
    /\ UNCHANGED <<pc, sock, now, end_time, acceptAt, wire, rpos, eof, receive_buffer,
                   message_buffer, delivered, split, rejected>>

\* how the reads so far have cut the stream, after a read of n bytes
next_split(n) ==
    IF n = 0 THEN split
    ELSE IF split = "none" /\ n = Len(wire) THEN "whole"
    ELSE IF split \in {"none", "bytewise"} /\ n = 1 THEN "bytewise"
    ELSE "other"

\* lines 101-130: recv returns n bytes (0 when the peer has closed and all its
\* bytes were read); feed them, trim the buffer, return the first queued message.
\* buf is the buffer after "+=", q the queue after the for loop (each bound
\* once, so that it is computed once)
recv_chunk(n) ==
    /\ pc = "constructed"
    /\ Len(message_buffer) = 0
    /\ sock = "connected"
    /\ \E buf \in {receive_buffer \o SubSeq(wire, rpos + 1, rpos + n)} :
       \E q \in {decode_loop(message_buffer, buf, 0, frame_count(buf),
                             rpos - Len(receive_buffer))} :
       LET cnt == frame_count(buf)
       IN /\ rpos' = rpos + n
          /\ eof' = (n = 0)
          /\ split' = next_split(n)
          /\ rejected' = rejected + invalid_count(buf, cnt)
          /\ receive_buffer' = remainder(buf)
          /\ IF Len(q) = 0
             THEN /\ message_buffer' = q
                  /\ delivered' = delivered
                  /\ result' = RecvReturn(<<>>, TRUE, TRUE)
             ELSE LET p == popleft(q)
                  IN /\ message_buffer' = p.rest
                     /\ delivered' = Append(delivered, p.item)
                     /\ result' = RecvReturn(<<p.item.msg>>, TRUE, TRUE)
    /\ UNCHANGED <<pc, sock, now, end_time, acceptAt, wire>>

recv_read ==
    \E n \in 0..Min(RecvMax, Len(wire) - rpos) :
        /\ (n = 0) <=> (rpos = Len(wire))
        /\ recv_chunk(n)

recv_internal ==
    \/ recv_queued
    \/ recv_select_raises
    \/ recv_not_ready
    \/ recv_read_raises
    \/ recv_read

\* send and _tcp_send: sendall writes the whole payload or raises OSError
\* (always on a closed socket)
send_reconnects(msg) ==
    /\ pc = "constructed"
    /\ \/ /\ sock = "connected"
          /\ result' = SendReturn(msg, homing_payload(msg))
          /\ UNCHANGED sock
       \/ /\ result' = SendRaise("OSError")
          /\ sock' = "connected"
    /\ UNCHANGED <<pc, now, end_time, acceptAt, wire, rpos, eof, receive_buffer,
                   message_buffer, delivered, split, rejected>>
send(msg) ==
    /\ pc = "constructed"
    /\ \/ /\ sock = "connected"
          /\ result' = SendReturn(msg, homing_payload(msg))
       \/ result' = SendRaise("OSError")
    /\ UNCHANGED <<pc, sock, now, end_time, acceptAt, wire, rpos, eof, receive_buffer,
                   message_buffer, delivered, split, rejected>>

\* BusABC.shutdown (can/bus.py): stops the periodic send tasks, of which this
\* bus starts none; a repeated call returns without raising
super_shutdown == TRUE

\* shutdown: super().shutdown(), then self.__socket.close() (closing a closed
\* socket does nothing)
shutdown_once ==
    /\ pc = "constructed"
    /\ super_shutdown
    /\ sock' = "closed"
    /\ result' = IF sock = "closed"
                 THEN [NoCall EXCEPT !.op = "shutdown", !.kind = "error",
                                     !.err = "OSError", !.again = TRUE]
                 ELSE [NoCall EXCEPT !.op = "shutdown"]
    /\ UNCHANGED <<pc, now, end_time, acceptAt, wire, rpos, eof, receive_buffer,
                   message_buffer, delivered, split, rejected>>
shutdown ==
    /\ pc = "constructed"
    /\ super_shutdown
    /\ sock' = "closed"
    /\ result' = [NoCall EXCEPT !.op = "shutdown", !.again = (sock = "closed")]
    /\ UNCHANGED <<pc, now, end_time, acceptAt, wire, rpos, eof, receive_buffer,
                   message_buffer, delivered, split, rejected>>

Next ==
    \/ Construct
    \/ connect_to_server
    \/ connect_timeout
    \/ recv_internal
    \/ \E msg \in SendMsgs : send(msg)
    \/ shutdown

Spec == Init /\ [][Next]_vars

\* the same program talking to peers that send at most two frames' worth of
\* bytes; the loop of connect_to_server keeps running until it returns or raises
ShortInit == Init /\ Len(wire) <= 2 * ethcan_message_fixed_len
FairSpec == ShortInit /\ [][Next]_vars /\ WF_vars(connect_to_server \/ connect_timeout)

\* the same peers, and a caller that keeps calling _recv_internal
CallerSpec == ShortInit /\ [][Next]_vars /\ WF_vars(recv_internal)

-----------------------------------------------------------------------------
(* Properties *)

\* everything decoded so far, in the order it was or will be returned
Entries == delivered \o message_buffer

Suffix(s, k) == SubSeq(s, Len(s) - k + 1, Len(s))

Zeros(k) == [i \in 1..k |-> 0]

\* bytes 1-4 of the window at stream offset off, big-endian
WireId(off) ==
    wire[off + 2] * 16777216 + wire[off + 3] * 65536 + wire[off + 4] * 256 + wire[off + 5]

\* C1: after every _recv_internal call that reads a chunk, the carry-over
\* buffer holds fewer than 13 bytes, and they are exactly the last
\* (total length mod 13) bytes of the previous buffer followed by the chunk.
C1_CarryOverAfterRead ==
    [][ (result'.op = "recv" /\ result'.read) =>
            LET chunk == SubSeq(wire, rpos + 1, rpos')
                total == receive_buffer \o chunk
            IN /\ Len(receive_buffer') < 13
               /\ receive_buffer' = Suffix(total, Len(total) % 13) ]_vars

\* a valid frame and an 8-byte fragment read at once: one message, 8 bytes kept
C1_Witness ==
    /\ wire = FrameA \o Frag8
    /\ split = "whole"
    /\ result.op = "recv" /\ result.read /\ result.kind = "msg"
    /\ Len(Entries) = 1
    /\ receive_buffer = Frag8

\* C2: the messages returned by _recv_internal are in wire order: each comes
\* from a window at a later stream offset than every message returned before
\* it (and than none still queued), and carries that window's bytes.
C2_WireOrder ==
    /\ \A i, j \in 1..Len(Entries) : i < j => Entries[i].off < Entries[j].off
    /\ \A i \in 1..Len(Entries) :
          /\ Entries[i].off + 13 <= rpos
          /\ Entries[i].msg.data = SubSeq(wire, Entries[i].off + 6, Entries[i].off + 13)
          /\ Entries[i].msg.arbitration_id = WireId(Entries[i].off)

\* two different frames arrived in one read and both were returned
C2_Witness ==
    /\ wire = FrameA \o FrameB
    /\ split = "whole"
    /\ Len(delivered) = 2
    /\ delivered[1].msg # delivered[2].msg

\* C3: however the stream is split into reads (one byte per read included),
\* the decoded messages and the carry-over buffer are those of feeding the
\* same bytes in a single read.
C3_SplitIndependent ==
    LET bytes == SubSeq(wire, 1, rpos)
        one == decode_loop(<<>>, bytes, 0, frame_count(bytes), 0)
    IN /\ Entries = one
       /\ receive_buffer = remainder(bytes)

\* three pieces read one byte per read, a frame decoded on the way
C3_Witness ==
    /\ split = "bytewise"
    /\ rpos = Len(wire)
    /\ rpos >= 26
    /\ Len(Entries) >= 2
    /\ receive_buffer # <<>>

\* C4: after shutdown every send or _recv_internal call fails with an error
\* and does no socket I/O; _recv_internal returns neither a message nor None.
C4_ClosedFails ==
    (sock = "closed" /\ result.op \in {"send", "recv"}) =>
        /\ result.kind = "error"
        /\ ~result.read
        /\ result.bytes = <<>>

\* C5: a zero-byte read (peer closed) is surfaced as an error, never as the
\* normal (None, False) result.
C5_ZeroReadRaises ==
    (result.op = "recv" /\ result.read /\ eof) => result.kind = "error"

\* C6: a 13-byte window whose head byte exceeds 0x08 yields no message and no
\* error; the buffer advances past exactly its 13 bytes, and every window
\* with a valid head at a 13-byte boundary is decoded once, byte for byte.
C6_InvalidWindowSkipped ==
    /\ \A w \in 0..((rpos \div 13) - 1) :
          LET off == 13 * w
              hits == {i \in 1..Len(Entries) : Entries[i].off = off}
          IN IF wire[off + 1] > 8
             THEN hits = {}
             ELSE /\ Cardinality(hits) = 1
                  /\ \A i \in hits :
                        /\ Entries[i].msg.data = SubSeq(wire, off + 6, off + 13)
                        /\ Entries[i].msg.arbitration_id = WireId(off)
    /\ receive_buffer = SubSeq(wire, 13 * (rpos \div 13) + 1, rpos)
    /\ (result.op = "recv" /\ result.read) => result.kind # "error"

\* an invalid window and the valid frame after it, the frame delivered
C6_Witness ==
    /\ wire = FrameX \o FrameA
    /\ rpos = 26
    /\ rejected = 1
    /\ Len(delivered) = 1
    /\ delivered[1].off = 13
    /\ delivered[1].msg = Message(FrameA)

\* C7 as stated: against an endpoint that starts accepting after a delay
\* shorter than maxWait, connect_to_server does not end in TimeoutError.
C7_DelayedAcceptSucceeds ==
    acceptAt < timeout_ms => pc # "raised"

\* C7 as amended: a connect is attempted only while the sampled time is below
\* maxWait; the first success returns and nothing is retried; a sample at or
\* past maxWait raises TimeoutError at once; an endpoint refusing for maxWait
\* or longer yields TimeoutError; one that starts accepting earlier yields
\* success exactly when a connect is attempted at or after that time, which
\* needs the failed attempt before it to return before maxWait; and the loop
\* always ends.
C7_BoundedRetry ==
    /\ [](pc = "raised" => now >= timeout_ms /\ sock = "unconnected")
    /\ [](pc = "constructed" => now >= acceptAt /\ now < timeout_ms)
    /\ [](acceptAt >= timeout_ms => pc # "constructed")
    /\ [][ pc = "connecting" =>
             /\ (now >= timeout_ms => pc' = "raised")
             /\ (now < timeout_ms /\ now >= acceptAt =>
                    pc' = "constructed" /\ sock' = "connected")
             /\ (now < timeout_ms /\ now < acceptAt =>
                    pc' = "connecting" /\ now' > now) ]_vars
    /\ [][ (pc # "new" /\ pc # "connecting") => (pc' = pc /\ now' = now) ]_vars
    /\ (pc = "connecting" ~> pc \in {"constructed", "raised"})

\* the endpoint refused at first; a later attempt, made at or after the time
\* it began to accept and before maxWait, connected
C7_Witness ==
    /\ pc = "constructed"
    /\ sock = "connected"
    /\ acceptAt > 0
    /\ now >= acceptAt
    /\ now < timeout_ms

\* C8: send writes exactly 13 bytes: head 0x08, the big-endian arbitration
\* id, the payload zero-padded to 8 bytes.
C8_SendWrites13 ==
    (result.op = "send" /\ result.kind = "ok") =>
        LET m == result.sent[1]
            id == m.arbitration_id
        IN /\ Len(result.bytes) = 13
           /\ result.bytes =
                 << 8, (id \div 16777216) % 256, (id \div 65536) % 256,
                    (id \div 256) % 256, id % 256 >>
                 \o m.data \o Zeros(8 - Len(m.data))

\* C9: the bytes send(m) writes, fed to the receive path, decode to exactly
\* one message with m's arbitration id and m's payload zero-padded to 8 bytes.
C9_RoundTrip ==
    (result.op = "send" /\ result.kind = "ok") =>
        LET m == result.sent[1]
            q == decode_loop(<<>>, result.bytes, 0, frame_count(result.bytes), 0)
        IN /\ Len(q) = 1
           /\ q[1].msg.arbitration_id = m.arbitration_id
           /\ q[1].msg.data = m.data \o Zeros(8 - Len(m.data))

\* C10: with a non-empty queue _recv_internal returns the oldest queued
\* message with filtersApplied = False, without select and without recv: the
\* queue loses exactly its head, buffer and stream position stay.
C10_QueuedPop ==
    [][ (pc = "constructed" /\ Len(message_buffer) # 0 /\ result'.op = "recv") =>
            /\ result'.kind = "msg"
            /\ result'.msg = <<Head(message_buffer).msg>>
            /\ result'.filtered = FALSE
            /\ ~result'.selected
            /\ ~result'.read
            /\ message_buffer' = Tail(message_buffer)
            /\ delivered' = Append(delivered, Head(message_buffer))
            /\ receive_buffer' = receive_buffer
            /\ rpos' = rpos
            /\ eof' = eof ]_vars

\* three frames came in one read; the second was popped from a queue of two
C10_Witness ==
    /\ result.op = "recv" /\ result.kind = "msg" /\ ~result.selected
    /\ Len(delivered) = 2
    /\ Len(message_buffer) = 1
    /\ delivered[2].msg # message_buffer[1].msg

\* the indices of the windows of buf whose head byte is at most 0x08, ascending
RECURSIVE ValidIdx(_, _)
ValidIdx(buf, i) ==
    IF 13 * (i + 1) > Len(buf) THEN <<>>
    ELSE (IF buf[13 * i + 1] <= 8 THEN <<i>> ELSE <<>>) \o ValidIdx(buf, i + 1)

\* the message the 13 bytes of buf from index 13 * i + 1 on stand for
Decoded(buf, i) ==
    [ arbitration_id |-> buf[13 * i + 2] * 16777216 + buf[13 * i + 3] * 65536
                            + buf[13 * i + 4] * 256 + buf[13 * i + 5],
      data |-> [j \in 1..8 |-> buf[13 * i + 5 + j]],
      is_extended_id |-> FALSE,
      timestamp |-> 0 ]

\* C11: with an empty queue and a socket that is not readable within the
\* timeout, _recv_internal returns (None, False) without reading, and leaves
\* the carry-over buffer and the queue as they were.
C11_NotReadyNoEffect ==
    [][ (pc = "constructed" /\ Len(message_buffer) = 0 /\ result'.op = "recv"
            /\ result'.kind = "none" /\ ~result'.read) =>
            /\ result'.msg = <<>>
            /\ result'.filtered = FALSE
            /\ result'.selected
            /\ rpos' = rpos
            /\ eof' = eof
            /\ receive_buffer' = receive_buffer
            /\ message_buffer' = message_buffer
            /\ delivered' = delivered ]_vars

\* a poll that found nothing while part of a frame was buffered
C11_Witness ==
    /\ sock = "connected"
    /\ result.op = "recv" /\ result.kind = "none" /\ result.selected /\ ~result.read
    /\ message_buffer = <<>>
    /\ receive_buffer = Frag8

\* C12 as stated, last part: reads that leave the buffer without a complete
\* valid frame return (None, False) and keep the bytes buffered, so as long
\* as nothing was decoded every byte read is still in the buffer.
C12_NoFrameKeepsBytes ==
    (result.op = "recv" /\ result.read /\ result.kind = "none" /\ Len(Entries) = 0) =>
        receive_buffer = SubSeq(wire, 1, rpos)

\* C12 as amended: a call that finds the queue empty and the socket ready
\* does one read; with k >= 1 valid complete windows in the buffer it returns
\* the first and leaves the other k - 1 queued in wire order; with none it
\* returns (None, False); in both cases the complete windows leave the buffer
\* and only the bytes after the last complete window stay buffered.
C12_ReadReturnsFirst ==
    [][ (pc = "constructed" /\ Len(message_buffer) = 0 /\ result'.op = "recv"
            /\ result'.read) =>
            \E total \in {receive_buffer \o SubSeq(wire, rpos + 1, rpos')} :
            \E valid \in {ValidIdx(total, 0)} :
               /\ result'.selected
               /\ result'.filtered = FALSE
               /\ receive_buffer' = Suffix(total, Len(total) % 13)
               /\ IF Len(valid) = 0
                  THEN /\ result'.kind = "none"
                       /\ result'.msg = <<>>
                       /\ message_buffer' = <<>>
                       /\ delivered' = delivered
                  ELSE /\ result'.kind = "msg"
                       /\ result'.msg = <<Decoded(total, valid[1])>>
                       /\ Len(delivered') = Len(delivered) + 1
                       /\ delivered'[Len(delivered')].msg = Decoded(total, valid[1])
                       /\ Len(message_buffer') = Len(valid) - 1
                       /\ \A j \in 1..(Len(valid) - 1) :
                             message_buffer'[j].msg = Decoded(total, valid[j + 1]) ]_vars

\* three valid frames in one read: the first returned, two queued in wire order
C12_Witness ==
    /\ wire = FrameA \o FrameB \o FrameA
    /\ split = "whole"
    /\ result.op = "recv" /\ result.read /\ result.kind = "msg"
    /\ result.msg = <<Message(FrameA)>>
    /\ Len(message_buffer) = 2
    /\ message_buffer[1].msg = Message(FrameB)
    /\ message_buffer[2].msg = Message(FrameA)

\* C13: shutdown is idempotent: a second or later call raises nothing and
\* leaves the transport closed, with everything else as it was.
C13_ShutdownIdempotent ==
    /\ [](result.op = "shutdown" => result.kind = "ok" /\ sock = "closed")
    /\ [][ (sock = "closed" /\ result'.op = "shutdown") =>
             /\ result'.kind = "ok"
             /\ sock' = "closed"
             /\ pc' = pc
             /\ receive_buffer' = receive_buffer
             /\ message_buffer' = message_buffer
             /\ rpos' = rpos ]_vars

\* shutdown was called on a transport that was closed already
C13_Witness ==
    /\ sock = "closed"
    /\ result.op = "shutdown"
    /\ result.again
    /\ result.kind = "ok"

\* C14: when construction fails with TimeoutError no transport exists
\* afterwards, no call ever runs on it, and the socket created before the
\* connect attempts is not left open.
C14_FailedConstructionReleases ==
    pc = "raised" =>
        /\ sock \in {"none", "closed"}
        /\ result = NoCall

\* C15: a complete 13-byte window is decoded if and only if its first byte,
\* unsigned, is at most 0x08; a decoded message has the big-endian value of
\* bytes 1-4 as arbitration id, the 8 bytes 5-12 as data, is_extended_id
\* False and timestamp 0.0.
C15_HeadRule ==
    /\ \A w \in 0..((rpos \div 13) - 1) :
          (wire[13 * w + 1] <= 8) <=> (\E i \in 1..Len(Entries) : Entries[i].off = 13 * w)
    /\ \A i \in 1..Len(Entries) :
          /\ Entries[i].off % 13 = 0
          /\ Entries[i].msg = Decoded(wire, Entries[i].off \div 13)
          /\ Len(Entries[i].msg.data) = 8
          /\ ~Entries[i].msg.is_extended_id
          /\ Entries[i].msg.timestamp = 0

\* windows with head 0x00 and head 0x08 were decoded, one with head 0xFF was not
C15_Witness ==
    /\ wire = FrameB \o FrameA \o FrameX
    /\ rpos = 39
    /\ Len(Entries) = 2
    /\ Entries[1].msg.arbitration_id = 2147483647
    /\ Entries[2].msg.arbitration_id = 291
    /\ rejected = 1

\* C16: windows are taken only at stream offsets that are multiples of 13:
\* the number of bytes consumed is a multiple of 13, every window (decoded or
\* rejected) advances the position by exactly 13, and a stream of invalid
\* windows only is drained in 13-byte steps with nothing but rejections.
C16_WindowsAt13 ==
    /\ (rpos - Len(receive_buffer)) % 13 = 0
    /\ rpos - Len(receive_buffer) = 13 * (rpos \div 13)
    /\ \A i \in 1..Len(Entries) : Entries[i].off % 13 = 0
    /\ rejected = Cardinality({w \in 0..((rpos \div 13) - 1) : wire[13 * w + 1] > 8})
    /\ (\A w \in 0..((rpos \div 13) - 1) : wire[13 * w + 1] > 8) =>
          (Len(Entries) = 0 /\ rejected = rpos \div 13)

\* three invalid windows drained, read byte by byte: three rejections only
C16_Witness ==
    /\ wire = FrameX \o FrameX \o FrameX
    /\ rpos = 39
    /\ split = "bytewise"
    /\ rejected = 3
    /\ Len(Entries) = 0
    /\ receive_buffer = <<>>

\* position of the socket in Disconnected -> Connecting -> Connected -> Closed
Stage(s) ==
    CASE s = "none" -> 0 [] s = "unconnected" -> 1 [] s = "connected" -> 2
      [] s = "closed" -> 3

\* C17: the connection moves along Disconnected -> Connecting -> Connected ->
\* Closed only: nothing leaves Closed, no error of send or _recv_internal
\* starts a reconnect, and connect attempts are made during construction only.
C17_Lifecycle ==
    /\ [][ /\ Stage(sock') \in {Stage(sock), Stage(sock) + 1}
           /\ (sock = "closed" => sock' = "closed")
           /\ (pc \in {"constructed", "raised"} =>
                  (pc' = pc /\ now' = now /\ end_time' = end_time))
           /\ (result'.kind = "error" => sock' = sock) ]_vars
    /\ [](sock = "unconnected" <=> pc \in {"connecting", "raised"})
    /\ [](sock \in {"connected", "closed"} <=> pc = "constructed")

\* a read failed on the connected transport and later a send failed on the
\* closed one: still closed
C17_Witness ==
    /\ sock = "closed"
    /\ result.op = "send"
    /\ result.kind = "error"
    /\ Len(delivered) >= 1

\* C18: byte conservation: the bytes read are 13 for each message decoded and
\* each window rejected, plus the carry-over buffer; no two messages come
\* from the same window and the buffer is the tail of what was read.
C18_ByteConservation ==
    /\ rpos = 13 * (Len(Entries) + rejected) + Len(receive_buffer)
    /\ Cardinality({Entries[i].off : i \in 1..Len(Entries)}) = Len(Entries)
    /\ receive_buffer = SubSeq(wire, rpos - Len(receive_buffer) + 1, rpos)

\* a decoded window, a rejected window and an incomplete tail, all read
C18_Witness ==
    /\ wire = FrameA \o FrameX \o Frag8
    /\ rpos = 34
    /\ Len(Entries) = 1
    /\ rejected = 1
    /\ Len(receive_buffer) = 8

\* the window at stream offset 13 * w has been read whole and is a valid frame
ValidRead(w) == 13 * (w + 1) <= rpos /\ wire[13 * w + 1] <= 8

\* the message of the window at stream offset 13 * w has been returned
Returned(w) == \E i \in 1..Len(delivered) : delivered[i].off = 13 * w

\* C19: when the caller keeps calling _recv_internal, every valid frame read
\* whole at a 13-byte boundary is eventually returned, and it is returned
\* once: the returned messages come from strictly increasing stream offsets,
\* and no message stays in the queue forever.
C19_EventualDelivery ==
    /\ \A w \in 0..1 : ValidRead(w) ~> Returned(w)
    /\ (Len(message_buffer) > 0) ~> (Len(message_buffer) = 0)
    /\ [](\A i \in 1..Len(delivered) : \A j \in 1..Len(delivered) :
              i < j => delivered[i].off < delivered[j].off)
    /\ [](\A i \in 1..Len(delivered) : ValidRead(delivered[i].off \div 13))

\* two frames read at once; the second was returned by a later call from
\* the queue
C19_Witness ==
    /\ split = "whole"
    /\ rpos = 26
    /\ Len(delivered) = 2
    /\ Len(message_buffer) = 0
    /\ result.op = "recv" /\ result.kind = "msg" /\ ~result.selected

\* C20: when select or recv fails with an I/O error on the open socket,
\* _recv_internal raises can.CanError and leaves the carry-over buffer and the
\* queue as they were before the call: no byte read so far is lost or counted
\* twice, so the next read continues from the same bytes.
C20_ErrorLeavesState ==
    [][ (sock = "connected" /\ result'.op = "recv" /\ result'.kind = "error") =>
            /\ result'.err = "CanError"
            /\ ~result'.read
            /\ receive_buffer' = receive_buffer
            /\ message_buffer' = message_buffer
            /\ delivered' = delivered
            /\ rpos' = rpos /\ eof' = eof /\ rejected' = rejected
            /\ receive_buffer' = SubSeq(wire, rpos' - Len(receive_buffer') + 1, rpos')
            /\ sock' = "connected" ]_vars

\* a failed call between two reads: part of a frame is in the buffer, a
\* message has been returned, the rest of the stream is still to come
C20_Witness ==
    /\ sock = "connected"
    /\ result.op = "recv" /\ result.kind = "error" /\ result.err = "CanError"
    /\ receive_buffer # <<>>
    /\ Len(delivered) >= 1
    /\ rpos < Len(wire)

=============================================================================
